---- MODULE Spec2Model ----
(***************************************************************************)
(* ElevenLabsClient.request (src/api/client.ts): one logical HTTP request  *)
(* with exponential-backoff retry.  The remote side (fetch, the response   *)
(* body, the timer) is the environment; the attempt loop is the program.   *)
(***************************************************************************)
EXTENDS Integers, Sequences, FiniteSets, TLC

(***************************************************************************)
(* Bounds of the model.                                                    *)
(***************************************************************************)
\* maxRetries of the constructed client ranges over 0..MaxRetriesBound
MaxRetriesBound == 2

\* retryDelayMs of the constructed client ranges over DefaultRetryDelayMs * (0..MaxDelayUnits)
MaxDelayUnits == 1

\* the default of retryDelayMs (constructor)
DefaultRetryDelayMs == 1000

\* the default of maxRetries (constructor)
DefaultMaxRetries == 3

(***************************************************************************)
(* Optional values: `undefined` is the empty tuple, a present value v is   *)
(* the one-element tuple <<v>>.                                            *)
(***************************************************************************)
Undefined == <<>>

Some(v) == <<v>>

\* JavaScript truthiness of an optional string: undefined and '' are falsy
TruthyString(o) == o # Undefined /\ o[1] # ""

\* JavaScript truthiness of an optional number: undefined and 0 are falsy
TruthyNumber(o) == o # Undefined /\ o[1] # 0

(***************************************************************************)
(* What the remote side can do on one attempt.                             *)
(***************************************************************************)
Statuses == {200, 201, 400, 404, 429, 500, 503}

Bodies == {"{\"voices\":[]}", "{\"detail\":{\"message\":\"quota exceeded\"}}", "<binary>", ""}

TransportMessages == {"fetch failed"}

\* the statuses of the responses whose body stream breaks off: one that is
\* ok, one that is final and one that is retried
BodyFailStatuses == {200, 400, 429}

\* message of the TypeError with which a body stream that breaks off rejects
BodyStreamMessage == "terminated"

\* variant of ResponseOk that accepts 200 only
ResponseOk_Only200(status) == status = 200

\* Response.ok
ResponseOk(status) == status >= 200 /\ status <= 299

(***************************************************************************)
(* JSON.parse / response.json(), restricted to the bodies of the model.    *)
(***************************************************************************)
JSONParsable(b) ==
  b \in {"{\"voices\":[]}", "{\"detail\":{\"message\":\"quota exceeded\"}}", "{\"voice_id\":\"v1\",\"labels\":{}}",
         "null", "5"}

\* the structured value JSON.parse yields (only applied to parsable bodies)
JSONValue(b) ==
  IF b \in {"null", "5"}
    THEN [type |-> IF b = "null" THEN "null" ELSE "number", voices |-> Undefined,
          detail |-> Undefined, labels |-> Undefined]
  ELSE IF b = "{\"voices\":[]}"
    THEN [type |-> "object", voices |-> Some(<<>>), detail |-> Undefined, labels |-> Undefined]
    ELSE IF b = "{\"voice_id\":\"v1\",\"labels\":{}}"
      THEN [type |-> "object", voices |-> Undefined, detail |-> Undefined, labels |-> Some(<<>>)]
      ELSE [type |-> "object", voices |-> Undefined, detail |-> Some([message |-> "quota exceeded"]),
            labels |-> Undefined]

\* message of the SyntaxError JSON.parse throws on an unparsable text
JSONSyntaxMessage(b) ==
  IF b = "" THEN "Unexpected end of JSON input" ELSE "Unexpected token < in JSON at position 0"

\* response.arrayBuffer(): the bytes of the body, untouched
ArrayBufferOf(b) == [type |-> "ArrayBuffer", bytes |-> b]

(***************************************************************************)
(* Error values.                                                           *)
(***************************************************************************)
MkError(name, status, message) == [name |-> name, status |-> status, message |-> message]

ERROR_MESSAGES ==
  [s \in {400, 401, 403, 429, 500, 502, 503} |->
     CASE s = 400 -> "Bad Request - Invalid parameters provided"
       [] s = 401 -> "Unauthorized - Invalid or missing API key"
       [] s = 403 -> "Forbidden - Insufficient permissions for this operation"
       [] s = 429 -> "Rate Limited - Too many requests, please try again later"
       [] s = 500 -> "Server Error - ElevenLabs service temporarily unavailable"
       [] s = 502 -> "Bad Gateway - ElevenLabs service temporarily unavailable"
       [] s = 503 -> "Service Unavailable - ElevenLabs service temporarily unavailable"]

getErrorMessage(status, detail) ==
  LET baseMessage == IF status \in DOMAIN ERROR_MESSAGES
                       THEN ERROR_MESSAGES[status]
                       ELSE "HTTP Error " \o ToString(status)
  IN  IF TruthyString(detail) THEN baseMessage \o ": " \o detail[1] ELSE baseMessage

\* errorDetail of a non-ok response: detail?.message of the parsed body, or
\* the raw text when JSON.parse throws or when reading `.detail` throws
\* because the parsed value is null
ErrorDetail(errorBody) ==
  IF JSONParsable(errorBody) /\ JSONValue(errorBody).type # "null"
    THEN LET errorJson == JSONValue(errorBody)
         IN  IF errorJson.detail = Undefined THEN Undefined ELSE Some(errorJson.detail[1].message)
    ELSE Some(errorBody)

(***************************************************************************)
(* State.                                                                  *)
(***************************************************************************)
VARIABLES
  apiKey,         \* this.apiKey
  maxRetries,     \* this.maxRetries
  retryDelayMs,   \* this.retryDelayMs
  pc,             \* position of the request call: idle, fetch, sleep, returned, thrown
  responseType,   \* options.responseType of the call in progress
  attempt,        \* loop variable of the attempt loop
  lastError,      \* local lastError
  pendingError,   \* the error held across `await this.sleep(delay)`
  outcomes,       \* what the remote side did on each attempt so far (history)
  networkCalls,   \* number of fetch calls issued by the call
  sleeps,         \* the delays passed to this.sleep by the call, in order
  result          \* how the promise returned by request settled

\* the request as request builds it before the attempt loop and hands it to
\* fetch on each attempt
VARIABLES
  options,        \* the options argument of the call in progress
  url,            \* local url
  method,         \* local method
  requestHeaders, \* local requestHeaders
  sentBody,       \* the body handed to the latest fetch: JSON.stringify(body) or undefined
  serializations, \* how often the call has evaluated JSON.stringify(body)
  entry           \* the method the caller called: request, get, post or generateAudio

sentVars == <<options, url, method, requestHeaders, sentBody, serializations, entry>>

\* module state of client.ts and the environment of the process
VARIABLES
  env,               \* process.env
  clientInstance,    \* let clientInstance: null (Undefined) or the instance
  constructed,       \* number of ElevenLabsClient objects constructed by getClient
  sinceReset,        \* of these, the ones constructed since the last resetClient
  envAtConstruction, \* process.env as it was when clientInstance was constructed
  lastGet,           \* how the latest getClient call ended
  self               \* identity of the object whose fields are apiKey, maxRetries,
                     \* retryDelayMs: the client the caller holds and calls request on

moduleVars == <<env, clientInstance, constructed, sinceReset, envAtConstruction, lastGet>>

\* calls of request in flight at the same time: the variables of the call are
\* those of the call whose continuation the event loop is running
VARIABLES
  running,        \* the call whose continuation runs
  parked          \* the locals of the other calls that have run so far

callVars == <<running, parked>>

\* the server process of index.ts
VARIABLES
  process,        \* "loaded", "connected" or "exited"
  exitCode,       \* the code of process.exit, once called
  handler,        \* the tool handler that runs or ran last, and its result
  disk            \* what that handler has done to the file system

serverVars == <<process, exitCode, handler, disk>>

restVars == <<apiKey, self, moduleVars, callVars, serverVars>>

\* what the call has written with console.error
VARIABLES
  logs            \* the diagnostic lines of the call, in order

vars == <<maxRetries, retryDelayMs, pc, responseType, attempt, lastError,
          pendingError, outcomes, networkCalls, sleeps, logs, result, sentVars, restVars>>

NoResult == [kind |-> "pending", value |-> Undefined, error |-> Undefined]

Return(v) == [kind |-> "return", value |-> Some(v), error |-> Undefined]

Throw(e) == [kind |-> "throw", value |-> Undefined, error |-> Some(e)]

\* per-attempt outcomes of the remote side
Rejected(msg) == [kind |-> "reject", status |-> 0, body |-> "", message |-> msg]

Responded(status, body) == [kind |-> "response", status |-> status, body |-> body, message |-> ""]

\* the response head arrived, reading the body failed
BodyFailed(status) == [kind |-> "bodyfail", status |-> status, body |-> "", message |-> BodyStreamMessage]

(***************************************************************************)
(* The constructor: Init is the state right after `new ElevenLabsClient`.  *)
(***************************************************************************)
\* the fields of the object `new ElevenLabsClient(config)` yields
\* variant of NewClient that keeps only the last two digits of the configured delay
NewClient_Truncate(config) ==
  [apiKey |-> config.apiKey,
   maxRetries |-> IF config.maxRetries = Undefined THEN DefaultMaxRetries ELSE config.maxRetries[1],
   retryDelayMs |-> IF config.retryDelayMs = Undefined THEN DefaultRetryDelayMs
                    ELSE config.retryDelayMs[1] % 100]

NewClient(config) ==
  [apiKey |-> config.apiKey,
   maxRetries |-> IF config.maxRetries = Undefined THEN DefaultMaxRetries ELSE config.maxRetries[1],
   retryDelayMs |-> IF config.retryDelayMs = Undefined THEN DefaultRetryDelayMs ELSE config.retryDelayMs[1]]

\* config.maxRetries ?? 3 and config.retryDelayMs ?? 1000
Constructor(config) ==
  /\ apiKey = NewClient(config).apiKey
  /\ maxRetries = NewClient(config).maxRetries
  /\ retryDelayMs = NewClient(config).retryDelayMs

Configs ==
  [apiKey : {"sk-A"},
   maxRetries : {Some(n) : n \in 0..MaxRetriesBound},
   retryDelayMs : {Undefined} \cup {Some(DefaultRetryDelayMs * k) : k \in 0..MaxDelayUnits}]

\* the empty object {} as a set of headers
NoHeaders == [n \in {} |-> ""]

\* process.env without any of the variables the program reads
EmptyEnv == [ELEVENLABS_API_KEY |-> Undefined, MAX_RETRIES |-> Undefined, RETRY_DELAY_MS |-> Undefined]

\* the options of a call that passes only responseType
OnlyResponseType(rt) == [method |-> Undefined, body |-> Undefined, headers |-> Undefined, responseType |-> Some(rt)]

\* client.ts is loaded, getClient has not been called
ModuleLoaded ==
  /\ clientInstance = Undefined
  /\ constructed = 0
  /\ sinceReset = 0
  /\ envAtConstruction = EmptyEnv
  /\ lastGet = [kind |-> "none", instance |-> Undefined, error |-> Undefined]

\* calls of request that may be in flight at the same time
NumCalls == 2

Calls == 1..NumCalls

\* the locals of a call that has not been made
IdleRegs ==
  [pc |-> "idle", responseType |-> "json", attempt |-> 0, lastError |-> Undefined,
   pendingError |-> Undefined, outcomes |-> <<>>, networkCalls |-> 0, sleeps |-> <<>>,
   logs |-> <<>>,
   result |-> NoResult, options |-> OnlyResponseType("json"), url |-> "", method |-> "GET",
   requestHeaders |-> NoHeaders, sentBody |-> Undefined, serializations |-> 0,
   entry |-> "request"]

\* one call runs, no other call has been made
OneCall ==
  /\ running = 1
  /\ parked = [c \in {} |-> IdleRegs]

\* no tool handler has been called
IdleHandler ==
  [stage |-> "idle", tool |-> "", isError |-> FALSE, text |-> "", origin |-> "", raised |-> Undefined]

\* no directory made, no file written
EmptyDisk == [mkdirs |-> 0, files |-> <<>>]

\* main() of index.ts has not run
NotStarted ==
  /\ process = "loaded"
  /\ exitCode = Undefined

\* no call of request has been made
NoCallYet ==
  /\ pc = "idle"
  /\ responseType = "json"
  /\ attempt = 0
  /\ lastError = Undefined
  /\ pendingError = Undefined
  /\ outcomes = <<>>
  /\ networkCalls = 0
  /\ sleeps = <<>>
  /\ logs = <<>>
  /\ result = NoResult
  /\ options = OnlyResponseType("json")
  /\ url = ""
  /\ method = "GET"
  /\ requestHeaders = NoHeaders
  /\ sentBody = Undefined
  /\ serializations = 0
  /\ entry = "request"
  /\ OneCall
  /\ handler = IdleHandler
  /\ disk = EmptyDisk

Init ==
  /\ \E config \in Configs : Constructor(config)
  /\ self = Some(0)
  /\ env = EmptyEnv
  /\ ModuleLoaded
  /\ NoCallYet
  /\ NotStarted

(***************************************************************************)
(* The attempt loop of request.                                            *)
(***************************************************************************)
\* variant of Delay that multiplies where the code raises to a power
Delay_Multiply(a) == (2 * a) * retryDelayMs

\* variant of Delay that counts attempts from one
Delay_OffByOne(a) == (2 ^ (a + 1)) * retryDelayMs

\* Math.pow(2, attempt) * this.retryDelayMs
Delay(a) == (2 ^ a) * retryDelayMs

\* variant of IsRetryableStatus that retries every error status
IsRetryableStatus_AnyError(status) == status >= 400

\* response.status === 429 || response.status >= 500
IsRetryableStatus(status) == status = 429 \/ status >= 500

\* variant of RetriesLeft with an inclusive comparison
RetriesLeft_Inclusive(a) == a <= maxRetries

\* attempt < this.maxRetries
RetriesLeft(a) == a < maxRetries

\* NaN, which parseInt yields for a string that does not start with a number;
\* it stands outside the integers the model computes with
NaN == -2147483647

\* a <= b on numbers: false whenever one of them is NaN
Leq(a, b) == a # NaN /\ b # NaN /\ a <= b

\* the head of `for (attempt = a; attempt <= this.maxRetries; ...)`, entered with
\* lastError = le after n network calls: the next fetch is issued, or the loop
\* is left and the statement after it throws
LoopHeadOf(limit, a, le, n) ==
  /\ attempt' = a
  /\ lastError' = le
  /\ pendingError' = Undefined
  /\ IF Leq(a, limit)
       THEN /\ pc' = "fetch"
            /\ networkCalls' = n + 1
            /\ result' = NoResult
       ELSE /\ pc' = "thrown"
            /\ networkCalls' = n
            /\ result' = Throw(IF le # Undefined THEN le[1]
                               ELSE MkError("Error", Undefined, "Request failed after all retries"))

\* the head of the loop of a call on the client whose fields the variables hold
LoopHead(a, le, n) == LoopHeadOf(maxRetries, a, le, n)

\* the line console.error writes before a retry after a response with status
StatusLine(status, delay) ==
  "Request failed with " \o ToString(status) \o ", retrying in " \o ToString(delay) \o "ms..."

\* the line console.error writes before a retry after an error with message
NetworkLine(delay, message) ==
  "Network error, retrying in " \o ToString(delay) \o "ms... " \o message

\* variant of StartSleep that writes no line
StartSleep_NoLog(e, delay, line) ==
  /\ pc' = "sleep"
  /\ sleeps' = Append(sleeps, delay)
  /\ logs' = logs
  /\ pendingError' = Some(e)
  /\ result' = NoResult

\* console.error(line) and then `await this.sleep(delay)`, entered holding
\* error e
StartSleep(e, delay, line) ==
  /\ pc' = "sleep"
  /\ sleeps' = Append(sleeps, delay)
  /\ logs' = Append(logs, line)
  /\ pendingError' = Some(e)
  /\ result' = NoResult

\* the promise of request rejects with e
Reject(e) ==
  /\ pc' = "thrown"
  /\ result' = Throw(e)
  /\ UNCHANGED <<sleeps, logs, pendingError>>

\* the promise of request resolves with v
Resolve(v) ==
  /\ pc' = "returned"
  /\ result' = Return(v)
  /\ UNCHANGED <<sleeps, logs, pendingError>>

\* variant of Catch whose retry delay does not grow
Catch_FixedDelay(e) ==
  IF TruthyNumber(e.status)
    THEN Reject(e)
    ELSE IF RetriesLeft(attempt)
           THEN StartSleep(e, retryDelayMs, NetworkLine(retryDelayMs, e.message))
           ELSE Reject(MkError("Error", Undefined,
                       "Network error after " \o ToString(maxRetries + 1) \o " attempts: " \o e.message))

\* variant of Catch that reports maxRetries where the code reports maxRetries + 1
Catch_RetryCount(e) ==
  IF TruthyNumber(e.status)
    THEN Reject(e)
    ELSE IF RetriesLeft(attempt)
           THEN StartSleep(e, Delay(attempt), NetworkLine(Delay(attempt), e.message))
           ELSE Reject(MkError("Error", Undefined,
                       "Network error after " \o ToString(maxRetries) \o " attempts: " \o e.message))

\* the catch clause of the attempt, entered with the thrown value e
Catch(e) ==
  IF TruthyNumber(e.status)
    THEN Reject(e)
    ELSE IF RetriesLeft(attempt)
           THEN StartSleep(e, Delay(attempt), NetworkLine(Delay(attempt), e.message))
           ELSE Reject(MkError("Error", Undefined,
                       "Network error after " \o ToString(maxRetries + 1) \o " attempts: " \o e.message))

\* the branch `if (!response.ok)` once response.text() has delivered errorBody
NotOk(status, errorBody) ==
  LET error == MkError("Error", Some(status), getErrorMessage(status, ErrorDetail(errorBody)))
  IN  IF IsRetryableStatus(status) /\ RetriesLeft(attempt)
        THEN StartSleep(error, Delay(attempt), StatusLine(status, Delay(attempt)))
        ELSE Catch(error)

\* decoding of an ok response whose body has been read
Decode(body) ==
  IF responseType = "arraybuffer"
    THEN Resolve(ArrayBufferOf(body))
    ELSE IF JSONParsable(body)
           THEN Resolve(JSONValue(body))
           ELSE Catch(MkError("SyntaxError", Undefined, JSONSyntaxMessage(body)))

(***************************************************************************)
(* What request builds before the attempt loop.                            *)
(***************************************************************************)
ELEVENLABS_API_BASE == "https://api.elevenlabs.io/v1"

\* request bodies (the type is `unknown`): the object {text: str}, the number
\* num or the string str
ObjectBody(str) == [kind |-> "object", num |-> 0, str |-> str]

NumberBody(num) == [kind |-> "number", num |-> num, str |-> ""]

StringBody(str) == [kind |-> "string", num |-> 0, str |-> str]

\* JavaScript truthiness of an optional body
TruthyBody(b) ==
  /\ b # Undefined
  /\ CASE b[1].kind = "object" -> TRUE
       [] b[1].kind = "number" -> b[1].num # 0
       [] b[1].kind = "string" -> b[1].str # ""

\* JSON.stringify on the bodies of the model
JSONStringify(v) ==
  CASE v.kind = "object" -> "{\"text\":\"" \o v.str \o "\"}"
    [] v.kind = "number" -> ToString(v.num)
    [] v.kind = "string" -> "\"" \o v.str \o "\""

\* obj[name] on a headers object: undefined when the key is absent
HeaderAt(obj, name) == IF name \in DOMAIN obj THEN Some(obj[name]) ELSE Undefined

\* { 'xi-api-key': this.apiKey, ...headers }
SpreadHeadersOf(key, headers) ==
  [n \in {"xi-api-key"} \cup DOMAIN headers |-> IF n \in DOMAIN headers THEN headers[n] ELSE key]

SpreadHeaders(headers) == SpreadHeadersOf(apiKey, headers)

\* requestHeaders once `if (body && !requestHeaders['Content-Type'])` has run
BuildHeadersOf(key, headers, body) ==
  LET spread == SpreadHeadersOf(key, headers)
  IN  IF TruthyBody(body) /\ ~TruthyString(HeaderAt(spread, "Content-Type"))
        THEN [n \in DOMAIN spread \cup {"Content-Type"} |->
                IF n = "Content-Type" THEN "application/json" ELSE spread[n]]
        ELSE spread

BuildHeaders(headers, body) == BuildHeadersOf(apiKey, headers, body)

\* body ? JSON.stringify(body) : undefined
BuildBody(body) == IF TruthyBody(body) THEN Some(JSONStringify(body[1])) ELSE Undefined

\* the argument `body: body ? JSON.stringify(body) : undefined` of fetch, which
\* an attempt evaluates when the loop condition let it run (fetches); sent and
\* n are the body of the attempt before and the evaluations of JSON.stringify
\* so far
SendBody(fetches, body, sent, n) ==
  /\ sentBody' = IF fetches THEN BuildBody(body) ELSE sent
  /\ serializations' = IF fetches /\ TruthyBody(body) THEN n + 1 ELSE n

\* a default of the destructuring `const { ... } = options`
OrDefault(o, default) == IF o = Undefined THEN default ELSE o[1]

(***************************************************************************)
(* Actions.                                                                *)
(***************************************************************************)
\* request(endpoint, opts) is called on a client with the given fields: the
\* code of request up to its first await
RequestStart(fields, endpoint, opts) ==
  /\ pc \in {"idle", "returned", "thrown"}
  /\ options' = opts
  /\ method' = OrDefault(opts.method, "GET")
  /\ responseType' = OrDefault(opts.responseType, "json")
  /\ url' = ELEVENLABS_API_BASE \o endpoint
  /\ requestHeaders' = BuildHeadersOf(fields.apiKey, OrDefault(opts.headers, NoHeaders), opts.body)
  /\ SendBody(Leq(0, fields.maxRetries), opts.body, Undefined, 0)
  /\ outcomes' = <<>>
  /\ sleeps' = <<>>
  /\ logs' = <<>>
  /\ LoopHeadOf(fields.maxRetries, 0, Undefined, 0)

\* request(endpoint, opts) is called on the client whose fields the variables hold
RequestCall(endpoint, opts) ==
  /\ RequestStart([apiKey |-> apiKey, maxRetries |-> maxRetries, retryDelayMs |-> retryDelayMs],
                  endpoint, opts)
  /\ UNCHANGED <<maxRetries, retryDelayMs, restVars>>

\* request(endpoint, { responseType: rt })
Request(rt) == RequestCall("/voices", OnlyResponseType(rt)) /\ entry' = "request"

\* fetch rejects: the request could not be completed
FetchRejects(msg) ==
  /\ pc = "fetch"
  /\ outcomes' = Append(outcomes, Rejected(msg))
  /\ Catch(MkError("TypeError", Undefined, msg))
  /\ UNCHANGED <<maxRetries, retryDelayMs, responseType, attempt, lastError, networkCalls>>
  /\ UNCHANGED <<sentVars, restVars>>

\* fetch resolves with a response whose body is then read in full
FetchResponds(status, body) ==
  /\ pc = "fetch"
  /\ outcomes' = Append(outcomes, Responded(status, body))
  /\ IF ~ResponseOk(status) THEN NotOk(status, body) ELSE Decode(body)
  /\ UNCHANGED <<maxRetries, retryDelayMs, responseType, attempt, lastError, networkCalls>>
  /\ UNCHANGED <<sentVars, restVars>>

\* fetch resolves with a response, but reading its body (text, arrayBuffer or
\* json) rejects because the stream breaks off
BodyReadFails(status) ==
  /\ pc = "fetch"
  /\ outcomes' = Append(outcomes, BodyFailed(status))
  /\ Catch(MkError("TypeError", Undefined, BodyStreamMessage))
  /\ UNCHANGED <<maxRetries, retryDelayMs, responseType, attempt, lastError, networkCalls>>
  /\ UNCHANGED <<sentVars, restVars>>

\* variant of SleepResolves that repeats the attempt without counting it
SleepResolves_NoIncrement ==
  /\ pc = "sleep"
  /\ LoopHead(attempt, pendingError, networkCalls)
  /\ SendBody(Leq(attempt, maxRetries), options.body, sentBody, serializations)
  /\ UNCHANGED <<maxRetries, retryDelayMs, responseType, outcomes, sleeps, logs>>
  /\ UNCHANGED <<options, url, method, requestHeaders, entry, restVars>>

\* variant of the retry in which the body was consumed by the first fetch, so
\* that later attempts go out without it
SleepResolves_BodyConsumed ==
  /\ pc = "sleep"
  /\ LoopHead(attempt + 1, pendingError, networkCalls)
  /\ sentBody' = Undefined
  /\ UNCHANGED <<maxRetries, retryDelayMs, responseType, outcomes, sleeps, logs>>
  /\ UNCHANGED <<options, url, method, requestHeaders, serializations, entry, restVars>>

\* the timer of this.sleep fires: lastError = error; continue
SleepResolves ==
  /\ pc = "sleep"
  /\ LoopHead(attempt + 1, pendingError, networkCalls)
  /\ SendBody(Leq(attempt + 1, maxRetries), options.body, sentBody, serializations)
  /\ UNCHANGED <<maxRetries, retryDelayMs, responseType, outcomes, sleeps, logs>>
  /\ UNCHANGED <<options, url, method, requestHeaders, entry, restVars>>

Next ==
  \/ \E rt \in {"json", "arraybuffer"} : Request(rt)
  \/ \E msg \in TransportMessages : FetchRejects(msg)
  \/ \E status \in Statuses, body \in Bodies : FetchResponds(status, body)
  \/ \E status \in BodyFailStatuses : BodyReadFails(status)
  \/ SleepResolves

Spec == Init /\ [][Next]_vars

(***************************************************************************)
(* The callers' side of request: options, and the helpers get, post and    *)
(* generateAudio.                                                          *)
(***************************************************************************)
\* request(endpoint, { method, body, headers }) called directly
RequestWith(m, body, headers) ==
  /\ RequestCall("/voices", [method |-> m, body |-> body, headers |-> Some(headers),
                             responseType |-> Undefined])
  /\ entry' = "request"

\* get(endpoint, responseType?)
Get(rt) ==
  /\ RequestCall("/voices", [method |-> Some("GET"), body |-> Undefined, headers |-> Undefined,
                             responseType |-> rt])
  /\ entry' = "get"

\* post(endpoint, body, responseType?)
Post(body, rt) ==
  /\ RequestCall("/voices/add", [method |-> Some("POST"), body |-> body, headers |-> Undefined,
                                 responseType |-> rt])
  /\ entry' = "post"

\* variant of generateAudio that leaves responseType to its default
generateAudio_Default(body) ==
  /\ RequestCall("/text-to-speech/v1", [method |-> Some("POST"), body |-> body,
                                        headers |-> Undefined, responseType |-> Undefined])
  /\ entry' = "generateAudio"

\* generateAudio(endpoint, body)
generateAudio(body) ==
  /\ RequestCall("/text-to-speech/v1", [method |-> Some("POST"), body |-> body,
                                        headers |-> Undefined, responseType |-> Some("arraybuffer")])
  /\ entry' = "generateAudio"

\* the arguments callers pass in the model
CallerBodies == {Undefined, Some(ObjectBody("hi")), Some(NumberBody(0)), Some(StringBody(""))}

CallerResponseTypes == {Undefined, Some("json"), Some("arraybuffer")}

CallerHeaders ==
  { NoHeaders,
    [n \in {"Accept"} |-> "audio/mpeg"],
    [n \in {"Content-Type"} |-> "text/plain"],
    [n \in {"Content-Type"} |-> ""],
    [n \in {"content-type"} |-> "text/plain"],
    [n \in {"xi-api-key"} |-> "sk-other"] }

CallNext ==
  \/ \E m \in {Undefined, Some("PUT")}, body \in CallerBodies, headers \in CallerHeaders :
        RequestWith(m, body, headers)
  \/ \E rt \in CallerResponseTypes : Get(rt)
  \/ \E body \in CallerBodies, rt \in CallerResponseTypes : Post(body, rt)
  \/ \E body \in CallerBodies : generateAudio(body)
  \/ \E msg \in TransportMessages : FetchRejects(msg)
  \/ \E status \in {200, 400, 429}, body \in {"{\"voices\":[]}", "<binary>"} :
        FetchResponds(status, body)
  \/ SleepResolves

CallSpec == Init /\ [][CallNext]_vars

(***************************************************************************)
(* Several calls of request on one client.  Every `await` of request (the  *)
(* fetch, the reading of the body, the sleep) hands control to the event   *)
(* loop, which resumes some other call.                                    *)
(***************************************************************************)
\* the locals of the running call
CurrentRegs ==
  [pc |-> pc, responseType |-> responseType, attempt |-> attempt, lastError |-> lastError,
   pendingError |-> pendingError, outcomes |-> outcomes, networkCalls |-> networkCalls,
   sleeps |-> sleeps, logs |-> logs, result |-> result, options |-> options, url |-> url, method |-> method,
   requestHeaders |-> requestHeaders, sentBody |-> sentBody,
   serializations |-> serializations, entry |-> entry]

\* the locals of call c
RegsOf(c) ==
  IF c = running THEN CurrentRegs ELSE IF c \in DOMAIN parked THEN parked[c] ELSE IdleRegs

\* variant of Yield in which the attempt counter is shared by the calls, as
\* if it were kept on the client
Yield_SharedAttempt(c) ==
  /\ c \in Calls \ {running}
  /\ running' = c
  /\ parked' = [d \in (DOMAIN parked \cup {running}) \ {c} |-> RegsOf(d)]
  /\ pc' = RegsOf(c).pc
  /\ responseType' = RegsOf(c).responseType
  /\ attempt' = attempt
  /\ lastError' = RegsOf(c).lastError
  /\ pendingError' = RegsOf(c).pendingError
  /\ outcomes' = RegsOf(c).outcomes
  /\ networkCalls' = RegsOf(c).networkCalls
  /\ sleeps' = RegsOf(c).sleeps
  /\ logs' = RegsOf(c).logs
  /\ result' = RegsOf(c).result
  /\ options' = RegsOf(c).options
  /\ url' = RegsOf(c).url
  /\ method' = RegsOf(c).method
  /\ requestHeaders' = RegsOf(c).requestHeaders
  /\ sentBody' = RegsOf(c).sentBody
  /\ serializations' = RegsOf(c).serializations
  /\ entry' = RegsOf(c).entry
  /\ UNCHANGED <<apiKey, maxRetries, retryDelayMs, self, moduleVars, serverVars>>

\* the running call is suspended at its await (or has not started, or has
\* settled) and the event loop turns to call c
Yield(c) ==
  /\ c \in Calls \ {running}
  /\ running' = c
  /\ parked' = [d \in (DOMAIN parked \cup {running}) \ {c} |-> RegsOf(d)]
  /\ pc' = RegsOf(c).pc
  /\ responseType' = RegsOf(c).responseType
  /\ attempt' = RegsOf(c).attempt
  /\ lastError' = RegsOf(c).lastError
  /\ pendingError' = RegsOf(c).pendingError
  /\ outcomes' = RegsOf(c).outcomes
  /\ networkCalls' = RegsOf(c).networkCalls
  /\ sleeps' = RegsOf(c).sleeps
  /\ logs' = RegsOf(c).logs
  /\ result' = RegsOf(c).result
  /\ options' = RegsOf(c).options
  /\ url' = RegsOf(c).url
  /\ method' = RegsOf(c).method
  /\ requestHeaders' = RegsOf(c).requestHeaders
  /\ sentBody' = RegsOf(c).sentBody
  /\ serializations' = RegsOf(c).serializations
  /\ entry' = RegsOf(c).entry
  /\ UNCHANGED <<apiKey, maxRetries, retryDelayMs, self, moduleVars, serverVars>>

\* one client with one retry, as `new ElevenLabsClient({ apiKey, maxRetries: 1 })`
ConcInit ==
  /\ Constructor([apiKey |-> "sk-A", maxRetries |-> Some(1), retryDelayMs |-> Undefined])
  /\ self = Some(0)
  /\ env = EmptyEnv
  /\ ModuleLoaded
  /\ NoCallYet
  /\ NotStarted

ConcNext ==
  \/ \E rt \in {"json"} : Request(rt)
  \/ \E msg \in TransportMessages : FetchRejects(msg)
  \/ \E status \in {200, 429} : FetchResponds(status, "{\"voices\":[]}")
  \/ SleepResolves
  \/ \E c \in Calls : Yield(c)

ConcSpec == ConcInit /\ [][ConcNext]_vars

(***************************************************************************)
(* The singleton of client.ts: getClient, resetClient, process.env.        *)
(***************************************************************************)
\* instances getClient may construct before the model stops resetting
MaxInstances == 2

\* strings of process.env that hold numbers are sequences of characters
Digits == <<"0", "1", "2", "3", "4", "5", "6", "7", "8", "9">>

DigitValue(c) == (CHOOSE i \in 1..10 : Digits[i] = c) - 1

IsDigit(c) == \E i \in 1..10 : Digits[i] = c

\* the number a non-empty string of decimal digits denotes
RECURSIVE DigitsValue(_)
DigitsValue(str) ==
  IF Len(str) = 1 THEN DigitValue(str[1])
  ELSE 10 * DigitsValue(SubSeq(str, 1, Len(str) - 1)) + DigitValue(str[Len(str)])

\* the longest prefix of str made of decimal digits
RECURSIVE DigitPrefix(_)
DigitPrefix(str) ==
  IF str = <<>> \/ ~IsDigit(Head(str)) THEN <<>> ELSE <<Head(str)>> \o DigitPrefix(Tail(str))

\* str without its leading white space
RECURSIVE TrimStart(_)
TrimStart(str) == IF str # <<>> /\ Head(str) = " " THEN TrimStart(Tail(str)) ELSE str

\* parseInt(str, 10): leading white space is skipped, a sign is read, then the
\* digits up to the first character that is none; NaN if there is no digit
ParseInt(str) ==
  LET t == TrimStart(str)
      signed == t # <<>> /\ Head(t) \in {"-", "+"}
      d == DigitPrefix(IF signed THEN Tail(t) ELSE t)
  IN  IF d = <<>> THEN NaN
      ELSE IF signed /\ Head(t) = "-" THEN 0 - DigitsValue(d)
      ELSE DigitsValue(d)

\* process.env.X || fallback, for a variable X that holds a number
OrFallback(o, fallback) == IF o # Undefined /\ o[1] # <<>> THEN o[1] ELSE fallback

\* variant of ClientFromEnv that applies the fallback to the parsed number,
\* as `parseInt(process.env.X, 10) || fallback`
ClientFromEnv_FallbackAfterParse(id) ==
  LET ParsedOr(o, fallback) ==
        IF o = Undefined \/ ParseInt(o[1]) \in {0, NaN} THEN fallback ELSE ParseInt(o[1])
  IN  [id |-> id,
       fields |-> NewClient([apiKey |-> env.ELEVENLABS_API_KEY[1],
                             maxRetries |-> Some(ParsedOr(env.MAX_RETRIES, 3)),
                             retryDelayMs |-> Some(ParsedOr(env.RETRY_DELAY_MS, 1000))])]

\* the object getClient constructs from process.env, with its identity
ClientFromEnv(id) ==
  [id |-> id,
   fields |-> NewClient([apiKey |-> env.ELEVENLABS_API_KEY[1],
                         maxRetries |-> Some(ParseInt(OrFallback(env.MAX_RETRIES, <<"3">>))),
                         retryDelayMs |-> Some(ParseInt(OrFallback(env.RETRY_DELAY_MS, <<"1", "0", "0", "0">>)))])]

GetReturned(inst) == [kind |-> "return", instance |-> Some(inst), error |-> Undefined]

GetThrew(e) == [kind |-> "throw", instance |-> Undefined, error |-> Some(e)]

\* what getClient() does to the module: one synchronous call
GetClientStep ==
  IF clientInstance = Undefined
    THEN IF ~TruthyString(env.ELEVENLABS_API_KEY)
           THEN /\ lastGet' = GetThrew(MkError("Error", Undefined,
                                               "ELEVENLABS_API_KEY environment variable is required"))
                /\ UNCHANGED <<clientInstance, constructed, sinceReset, envAtConstruction>>
           ELSE /\ clientInstance' = Some(ClientFromEnv(constructed + 1))
                /\ constructed' = constructed + 1
                /\ sinceReset' = sinceReset + 1
                /\ envAtConstruction' = env
                /\ lastGet' = GetReturned(ClientFromEnv(constructed + 1))
    ELSE /\ lastGet' = GetReturned(clientInstance[1])
         /\ UNCHANGED <<clientInstance, constructed, sinceReset, envAtConstruction>>

\* variant of getClient that constructs on every call
getClient_Always ==
  /\ TruthyString(env.ELEVENLABS_API_KEY)
  /\ constructed < MaxInstances + 1
  /\ clientInstance' = Some(ClientFromEnv(constructed + 1))
  /\ constructed' = constructed + 1
  /\ sinceReset' = sinceReset + 1
  /\ envAtConstruction' = env
  /\ lastGet' = GetReturned(ClientFromEnv(constructed + 1))
  /\ UNCHANGED <<env, apiKey, self, maxRetries, retryDelayMs, pc, responseType, attempt,
                 lastError, pendingError, outcomes, networkCalls, sleeps, logs, result, sentVars, callVars, serverVars>>

\* variant of getClient that stores the instance before it checks the credential
getClient_StoreFirst ==
  /\ IF clientInstance = Undefined
       THEN /\ clientInstance' = Some([id |-> constructed + 1,
                                       fields |-> [apiKey |-> "", maxRetries |-> DefaultMaxRetries,
                                                   retryDelayMs |-> DefaultRetryDelayMs]])
            /\ constructed' = constructed + 1
            /\ sinceReset' = sinceReset + 1
            /\ envAtConstruction' = env
            /\ lastGet' = GetThrew(MkError("Error", Undefined,
                                           "ELEVENLABS_API_KEY environment variable is required"))
       ELSE /\ lastGet' = GetReturned(clientInstance[1])
            /\ UNCHANGED <<clientInstance, constructed, sinceReset, envAtConstruction>>
  /\ UNCHANGED <<env, apiKey, self, maxRetries, retryDelayMs, pc, responseType, attempt,
                 lastError, pendingError, outcomes, networkCalls, sleeps, logs, result, sentVars, callVars, serverVars>>

\* getClient() is called and its caller does nothing else
getClient ==
  /\ GetClientStep
  /\ UNCHANGED <<env, apiKey, self, maxRetries, retryDelayMs, pc, responseType, attempt,
                 lastError, pendingError, outcomes, networkCalls, sleeps, logs, result, sentVars, callVars, serverVars>>

\* variant of resetClient that also clears the fields of the instance it drops
resetClient_Dispose ==
  /\ constructed < MaxInstances
  /\ clientInstance' = Undefined
  /\ sinceReset' = 0
  /\ apiKey' = ""
  /\ maxRetries' = 0
  /\ retryDelayMs' = 0
  /\ UNCHANGED <<env, constructed, envAtConstruction, lastGet>>
  /\ UNCHANGED <<self, pc, responseType, attempt, lastError, pendingError, outcomes,
                 networkCalls, sleeps, logs, result, sentVars, callVars, serverVars>>

\* variant of resetClient that leaves the instance in place
resetClient_Keep ==
  /\ constructed < MaxInstances
  /\ sinceReset' = 0
  /\ UNCHANGED <<clientInstance, env, constructed, envAtConstruction, lastGet>>
  /\ UNCHANGED <<apiKey, self, maxRetries, retryDelayMs, pc, responseType, attempt,
                 lastError, pendingError, outcomes, networkCalls, sleeps, logs, result, sentVars, callVars, serverVars>>

\* resetClient()
resetClient ==
  /\ constructed < MaxInstances
  /\ clientInstance' = Undefined
  /\ sinceReset' = 0
  /\ UNCHANGED <<env, constructed, envAtConstruction, lastGet>>
  /\ UNCHANGED <<apiKey, self, maxRetries, retryDelayMs, pc, responseType, attempt,
                 lastError, pendingError, outcomes, networkCalls, sleeps, logs, result, sentVars, callVars, serverVars>>

\* the values the environment variables take in the model
EnvKeys == {Undefined, Some(""), Some("sk-A"), Some("sk-B")}

EnvMaxRetries == {Undefined, Some(<<"1">>)}

EnvRetryDelays == {Undefined, Some(<<"2", "5", "0">>)}

Envs == [ELEVENLABS_API_KEY : EnvKeys, MAX_RETRIES : EnvMaxRetries, RETRY_DELAY_MS : EnvRetryDelays]

\* some code of the process assigns process.env
SetEnv(e) ==
  /\ e # env
  /\ env' = e
  /\ UNCHANGED <<clientInstance, constructed, sinceReset, envAtConstruction, lastGet>>
  /\ UNCHANGED <<apiKey, self, maxRetries, retryDelayMs, pc, responseType, attempt,
                 lastError, pendingError, outcomes, networkCalls, sleeps, logs, result, sentVars, callVars, serverVars>>

\* `const client = getClient()` has returned: the caller holds the instance
\* and will call request on it
HoldClient ==
  /\ pc \in {"idle", "returned", "thrown"}
  /\ lastGet.kind = "return"
  /\ self' = Some(lastGet.instance[1].id)
  /\ apiKey' = lastGet.instance[1].fields.apiKey
  /\ maxRetries' = lastGet.instance[1].fields.maxRetries
  /\ retryDelayMs' = lastGet.instance[1].fields.retryDelayMs
  /\ UNCHANGED <<moduleVars, pc, responseType, attempt, lastError, pendingError, outcomes,
                 networkCalls, sleeps, logs, result, sentVars, callVars, serverVars>>

\* request is called on the client the caller holds
ClientRequest(rt) == self # Undefined /\ Request(rt)

\* client.ts is loaded in a process with some environment; nobody holds a client
ClientInit ==
  /\ env \in Envs
  /\ ModuleLoaded
  /\ NoCallYet
  /\ NotStarted
  /\ self = Undefined
  /\ apiKey = ""
  /\ maxRetries = 0
  /\ retryDelayMs = 0

ClientNext ==
  \/ getClient
  \/ resetClient
  \/ \E e \in Envs : SetEnv(e)
  \/ HoldClient
  \/ \E rt \in {"json"} : ClientRequest(rt)
  \/ \E status \in {200, 429} : FetchResponds(status, "{\"voices\":[]}")
  \/ SleepResolves

ClientSpec == ClientInit /\ [][ClientNext]_vars

\* every network call and every sleep completes
FairSpec == Spec /\ WF_vars(SleepResolves)
                 /\ WF_vars(\/ \E msg \in TransportMessages : FetchRejects(msg)
                            \/ \E status \in Statuses, body \in Bodies : FetchResponds(status, body)
                            \/ \E status \in BodyFailStatuses : BodyReadFails(status))

(***************************************************************************)
(* Responses that are not ok, over the statuses of the table, statuses     *)
(* outside it, and bodies of every kind.                                   *)
(***************************************************************************)
ErrorStatuses == {400, 401, 403, 404, 418, 429, 500, 502, 503}

ErrorBodies ==
  {"{\"detail\":{\"message\":\"quota exceeded\"}}", "{\"voices\":[]}", "null", "5", "<binary>", ""}

ErrorNext ==
  \/ \E rt \in {"json", "arraybuffer"} : Request(rt)
  \/ \E status \in ErrorStatuses, body \in ErrorBodies : FetchResponds(status, body)
  \/ SleepResolves

ErrorSpec == ConcInit /\ [][ErrorNext]_vars

(***************************************************************************)
(* The configuration getClient reads from the environment, over strings of *)
(* every kind: unset, empty, integers, negative and non-numeric ones.      *)
(***************************************************************************)
WideMaxRetries ==
  {Undefined, Some(<<>>), Some(<<"0">>), Some(<<"2">>), Some(<<"-", "1">>), Some(<<"a", "b", "c">>),
   Some(<<" ", "1", "x">>)}

WideRetryDelays == {Undefined, Some(<<"2", "5", "0">>)}

WideEnvs == [ELEVENLABS_API_KEY : {Some("sk-A")}, MAX_RETRIES : WideMaxRetries, RETRY_DELAY_MS : WideRetryDelays]

\* client.ts is loaded in a process with one of these environments
EnvInit ==
  /\ env \in WideEnvs
  /\ ModuleLoaded
  /\ NoCallYet
  /\ NotStarted
  /\ self = Undefined
  /\ apiKey = ""
  /\ maxRetries = 0
  /\ retryDelayMs = 0

EnvNext ==
  \/ getClient
  \/ HoldClient
  \/ \E rt \in {"json"} : ClientRequest(rt)
  \/ \E msg \in TransportMessages : FetchRejects(msg)
  \/ \E status \in {200, 400, 429} : FetchResponds(status, "{\"voices\":[]}")
  \/ SleepResolves

EnvSpec == EnvInit /\ [][EnvNext]_vars

(***************************************************************************)
(* The server of index.ts: main() and the handlers registered with         *)
(* server.tool.  A handler is `try { parse; await tool(input); return }    *)
(* catch (error) { return { ..., isError: true } }`; the tool functions    *)
(* call getClient(), then the client, and the audio tools then write the   *)
(* file.                                                                   *)
(***************************************************************************)
Tools ==
  {"elevenlabs_list_voices", "elevenlabs_get_voice", "elevenlabs_tts", "elevenlabs_tts_stream",
   "elevenlabs_dialogue", "elevenlabs_music", "elevenlabs_stream_music", "elevenlabs_sound_effect"}

\* the tools that call client.get; the others call client.generateAudio
VoiceTools == {"elevenlabs_list_voices", "elevenlabs_get_voice"}

\* the text before the message in the result of the catch block
ErrorPrefix(tool) ==
  CASE tool = "elevenlabs_list_voices" -> "Error listing voices: "
    [] tool = "elevenlabs_get_voice" -> "Error getting voice: "
    [] tool = "elevenlabs_tts" -> "Error generating TTS: "
    [] tool = "elevenlabs_tts_stream" -> "Error generating streaming TTS: "
    [] tool = "elevenlabs_dialogue" -> "Error generating dialogue: "
    [] tool = "elevenlabs_music" -> "Error generating music: "
    [] tool = "elevenlabs_stream_music" -> "Error generating streaming music: "
    [] OTHER -> "Error generating sound effect: "

\* the first line of the text of the result of a call that succeeded (with
\* no voices listed, the voice v1, and the default output format)
SuccessText(tool) ==
  CASE tool = "elevenlabs_list_voices" -> "Found 0 voices (0 total):"
    [] tool = "elevenlabs_get_voice" -> "undefined (v1)"
    [] tool = "elevenlabs_tts" -> "Generated TTS audio:"
    [] tool = "elevenlabs_tts_stream" -> "Generated streaming TTS audio:"
    [] tool = "elevenlabs_dialogue" -> "Generated dialogue audio:"
    [] tool = "elevenlabs_music" -> "Generated music:"
    [] tool = "elevenlabs_stream_music" -> "Generated streaming music:"
    [] OTHER -> "Generated sound effect:"

\* the endpoint the tool function builds (voice v1, default output format)
Endpoint(tool) ==
  CASE tool = "elevenlabs_list_voices" -> "/voices"
    [] tool = "elevenlabs_get_voice" -> "/voices/v1"
    [] tool = "elevenlabs_tts" -> "/text-to-speech/v1?output_format=mp3_44100_128"
    [] tool = "elevenlabs_tts_stream" -> "/text-to-speech/v1/stream?output_format=mp3_44100_128"
    [] tool = "elevenlabs_dialogue" -> "/text-to-dialogue?output_format=mp3_44100_128"
    [] tool = "elevenlabs_music" -> "/music?output_format=mp3_44100_128"
    [] tool = "elevenlabs_stream_music" -> "/music/stream?output_format=mp3_44100_128"
    [] OTHER -> "/sound-generation?output_format=mp3_44100_128"

\* the options with which client.get and client.generateAudio call request
ToolOptions(tool) ==
  IF tool \in VoiceTools
    THEN [method |-> Some("GET"), body |-> Undefined, headers |-> Undefined, responseType |-> Undefined]
    ELSE [method |-> Some("POST"), body |-> Some(ObjectBody("hi")), headers |-> Undefined,
          responseType |-> Some("arraybuffer")]

ToolEntry(tool) == IF tool \in VoiceTools THEN "get" ELSE "generateAudio"

\* message of the ZodError of schema.parse: the issues, as JSON
ZodMessage == "[{\"code\":\"invalid_type\"}]"

\* whether the tool function and the formatting of the handler get through
\* the value the client returned, and the TypeError they throw otherwise
ShapeOk(tool, v) ==
  CASE tool = "elevenlabs_list_voices" -> v.voices # Undefined
    [] tool = "elevenlabs_get_voice" -> v.labels # Undefined
    [] OTHER -> TRUE

ShapeMessage(tool) ==
  IF tool = "elevenlabs_list_voices"
    THEN "Cannot read properties of undefined (reading 'length')"
    ELSE "Cannot convert undefined or null to object"

\* the errors with which fs.mkdir and fs.writeFile reject in the model
MkdirMessage == "EACCES: permission denied, mkdir '/out'"

WriteMessage == "ENOSPC: no space left on device, write"

\* the handler is suspended at `await tool(input)`
Awaiting(tool, stage) ==
  [stage |-> stage, tool |-> tool, isError |-> FALSE, text |-> "", origin |-> "", raised |-> Undefined]

\* the handler returns the result of its try block
HandlerReturn(tool) ==
  [stage |-> "done", tool |-> tool, isError |-> FALSE, text |-> SuccessText(tool),
   origin |-> "", raised |-> Undefined]

\* variant of HandlerCatch that renders errors of the API only and throws the
\* others on
HandlerCatch_ApiErrorsOnly(tool, error) ==
  IF TruthyNumber(error.status)
    THEN [stage |-> "done", tool |-> tool, isError |-> TRUE,
          text |-> ErrorPrefix(tool) \o error.message, origin |-> "", raised |-> Undefined]
    ELSE [stage |-> "escaped", tool |-> tool, isError |-> FALSE, text |-> "",
          origin |-> "", raised |-> Undefined]

\* the catch block of the handler, entered with error
HandlerCatch(tool, error) ==
  [stage |-> "done", tool |-> tool, isError |-> TRUE,
   text |-> ErrorPrefix(tool) \o error.message, origin |-> "", raised |-> Undefined]

\* error is raised at origin inside the try block of the handler of tool; the
\* handler's record keeps what was raised and where
Raise(tool, origin, error) ==
  handler' = [HandlerCatch(tool, error) EXCEPT !.origin = origin, !.raised = Some(error)]

\* the client getClient() returns in the state it is called in
ClientGot == IF clientInstance = Undefined THEN ClientFromEnv(constructed + 1) ELSE clientInstance[1]

\* the host calls the handler of tool; the handler runs up to its first await
ToolCall(tool, argsValid) ==
  /\ process = "connected"
  /\ handler.stage \in {"idle", "done"}
  /\ pc \in {"idle", "returned", "thrown"}
  /\ IF ~argsValid
       THEN /\ Raise(tool, "validation", MkError("ZodError", Undefined, ZodMessage))
            /\ UNCHANGED <<apiKey, self, maxRetries, retryDelayMs, moduleVars, pc, responseType,
                           attempt, lastError, pendingError, outcomes, networkCalls, sleeps, logs,
                           result, sentVars>>
       ELSE /\ GetClientStep
            /\ UNCHANGED env
            /\ IF clientInstance = Undefined /\ ~TruthyString(env.ELEVENLABS_API_KEY)
                 THEN /\ Raise(tool, "getClient", lastGet'.error[1])
                      /\ UNCHANGED <<apiKey, self, maxRetries, retryDelayMs, pc, responseType,
                                     attempt, lastError, pendingError, outcomes, networkCalls,
                                     sleeps, logs, result, sentVars>>
                 ELSE /\ self' = Some(ClientGot.id)
                      /\ apiKey' = ClientGot.fields.apiKey
                      /\ maxRetries' = ClientGot.fields.maxRetries
                      /\ retryDelayMs' = ClientGot.fields.retryDelayMs
                      /\ RequestStart(ClientGot.fields, Endpoint(tool), ToolOptions(tool))
                      /\ entry' = ToolEntry(tool)
                      /\ handler' = Awaiting(tool, "client")
  /\ disk' = EmptyDisk
  /\ UNCHANGED <<callVars, process, exitCode>>

\* the promise of the client settles and the tool function goes on to its
\* next await, or the handler returns
ClientSettled ==
  /\ handler.stage = "client"
  /\ pc \in {"returned", "thrown"}
  /\ IF pc = "thrown"
       THEN Raise(handler.tool, "client", result.error[1])
       ELSE IF handler.tool \in VoiceTools
         THEN IF ShapeOk(handler.tool, result.value[1])
                THEN handler' = HandlerReturn(handler.tool)
                ELSE Raise(handler.tool, "response",
                           MkError("TypeError", Undefined, ShapeMessage(handler.tool)))
         ELSE handler' = Awaiting(handler.tool, "mkdir")
  /\ UNCHANGED <<apiKey, self, maxRetries, retryDelayMs, moduleVars, pc, responseType, attempt,
                 lastError, pendingError, outcomes, networkCalls, sleeps, logs, result, sentVars,
                 callVars, process, exitCode, disk>>

\* `await fs.mkdir(dir, { recursive: true })` settles
MkdirSettles(ok) ==
  /\ handler.stage = "mkdir"
  /\ IF ok
       THEN /\ handler' = Awaiting(handler.tool, "write")
            /\ disk' = [disk EXCEPT !.mkdirs = @ + 1]
       ELSE /\ Raise(handler.tool, "fs", MkError("Error", Undefined, MkdirMessage))
            /\ UNCHANGED disk
  /\ UNCHANGED <<apiKey, self, maxRetries, retryDelayMs, moduleVars, pc, responseType, attempt,
                 lastError, pendingError, outcomes, networkCalls, sleeps, logs, result, sentVars,
                 callVars, process, exitCode>>

\* variant of BufferFrom that writes the buffer converted to a string
BufferFrom_String(audioBuffer) == "[object ArrayBuffer]"

\* Buffer.from(audioBuffer): the bytes of the buffer
BufferFrom(audioBuffer) == audioBuffer.bytes

\* `await fs.writeFile(outputPath, Buffer.from(audioBuffer))` settles (what
\* the file holds after a write that failed is left open)
WriteSettles(ok) ==
  /\ handler.stage = "write"
  /\ IF ok
       THEN /\ handler' = HandlerReturn(handler.tool)
            /\ disk' = [disk EXCEPT !.files = Append(@, BufferFrom(result.value[1]))]
       ELSE /\ Raise(handler.tool, "fs", MkError("Error", Undefined, WriteMessage))
            /\ UNCHANGED disk
  /\ UNCHANGED <<apiKey, self, maxRetries, retryDelayMs, moduleVars, pc, responseType, attempt,
                 lastError, pendingError, outcomes, networkCalls, sleeps, logs, result, sentVars,
                 callVars, process, exitCode>>

\* variant of main that does not check the credential
main_NoCheck(connects) ==
  /\ process = "loaded"
  /\ IF connects
       THEN process' = "connected" /\ UNCHANGED exitCode
       ELSE process' = "exited" /\ exitCode' = Some(1)
  /\ UNCHANGED <<apiKey, self, maxRetries, retryDelayMs, moduleVars, pc, responseType, attempt,
                 lastError, pendingError, outcomes, networkCalls, sleeps, logs, result, sentVars,
                 callVars, handler, disk>>

\* main(), with `main().catch(...)`: server.connect resolves or rejects
main(connects) ==
  /\ process = "loaded"
  /\ IF ~TruthyString(env.ELEVENLABS_API_KEY)
       THEN process' = "exited" /\ exitCode' = Some(1)
       ELSE IF connects
         THEN process' = "connected" /\ UNCHANGED exitCode
         ELSE process' = "exited" /\ exitCode' = Some(1)
  /\ UNCHANGED <<apiKey, self, maxRetries, retryDelayMs, moduleVars, pc, responseType, attempt,
                 lastError, pendingError, outcomes, networkCalls, sleeps, logs, result, sentVars,
                 callVars, handler, disk>>

\* the environments of the server process in the model
ServerEnvs ==
  {e \in Envs : /\ e.ELEVENLABS_API_KEY \in {Undefined, Some(""), Some("sk-A")}
                /\ e.MAX_RETRIES = Some(<<"1">>)
                /\ e.RETRY_DELAY_MS = Undefined}

\* what the API and the file system do to a tool call
ToolSteps ==
  \/ \E tool \in Tools, argsValid \in BOOLEAN : ToolCall(tool, argsValid)
  \/ \E msg \in TransportMessages : FetchRejects(msg)
  \/ \E status \in {200, 400, 429},
        body \in {"{\"voices\":[]}", "{\"voice_id\":\"v1\",\"labels\":{}}", "<binary>"} :
          FetchResponds(status, body)
  \/ SleepResolves
  \/ ClientSettled
  \/ \E ok \in BOOLEAN : MkdirSettles(ok)
  \/ \E ok \in BOOLEAN : WriteSettles(ok)

\* the handlers on their own: the server is connected and the environment is
\* whatever it is by the time of the call
HandlerInit ==
  /\ env \in ServerEnvs
  /\ ModuleLoaded
  /\ NoCallYet
  /\ process = "connected"
  /\ exitCode = Undefined
  /\ self = Undefined
  /\ apiKey = ""
  /\ maxRetries = 0
  /\ retryDelayMs = 0

HandlerNext == ToolSteps

HandlerSpec == HandlerInit /\ [][HandlerNext]_vars

\* the process from its start
ServerInit ==
  /\ env \in ServerEnvs
  /\ ModuleLoaded
  /\ NoCallYet
  /\ NotStarted
  /\ self = Undefined
  /\ apiKey = ""
  /\ maxRetries = 0
  /\ retryDelayMs = 0

ServerNext ==
  \/ \E connects \in BOOLEAN : main(connects)
  \/ ToolSteps

ServerSpec == ServerInit /\ [][ServerNext]_vars

(***************************************************************************)
(* Vocabulary of the properties, read off the history of the call.         *)
(***************************************************************************)
RECURSIVE SumSeq(_)
SumSeq(q) == IF q = <<>> THEN 0 ELSE Head(q) + SumSeq(Tail(q))

Done == pc \in {"returned", "thrown"}

\* the outcome of the attempt with zero-based index i
OutcomeOf(i) == outcomes[i + 1]

LastOutcome == outcomes[Len(outcomes)]

\* a response received in full with status 429 or >= 500
RetryableResponse(o) == o.kind = "response" /\ (o.status = 429 \/ o.status >= 500)

\* a response received in full with a status that is not 2xx, not 429 and below 500
TerminalResponse(o) ==
  o.kind = "response" /\ ~(o.status \in 200..299) /\ o.status # 429 /\ o.status < 500

\* the attempt failed at transport level
TransportFailure(o) == o.kind \in {"reject", "bodyfail"}

\* a 2xx response whose body decodes under the responseType of the call
DecodableSuccess(o) ==
  /\ o.kind = "response"
  /\ o.status \in 200..299
  /\ (responseType = "json" => JSONParsable(o.body))

\* a 2xx response whose body does not parse into the declared structured shape
DecodeFailure(o) ==
  /\ o.kind = "response"
  /\ o.status \in 200..299
  /\ responseType = "json"
  /\ ~JSONParsable(o.body)

\* the payload the caller is to receive for a decodable 2xx response
PayloadOf(o) == IF responseType = "arraybuffer" THEN ArrayBufferOf(o.body) ELSE JSONValue(o.body)

ThrownError == result.error[1]

(***************************************************************************)
(* Properties.                                                             *)
(***************************************************************************)
\* C1: for every k in 0..maxRetries, when attempts 0..k-1 were answered 429 or
\* >= 500 and attempt k a decodable 2xx, request has made exactly k+1 network
\* calls, has returned the decoded payload of that response, and its sleeps
\* add up to (2^0 + ... + 2^(k-1)) * retryDelayMs = (2^k - 1) * retryDelayMs.
C1_RetryThenSuccess ==
  \A k \in 0..maxRetries :
    ( /\ Len(outcomes) = k + 1
      /\ \A i \in 0..(k - 1) : RetryableResponse(OutcomeOf(i))
      /\ DecodableSuccess(OutcomeOf(k)) )
    => /\ pc = "returned"
       /\ networkCalls = k + 1
       /\ result = Return(PayloadOf(OutcomeOf(k)))
       /\ SumSeq(sleeps) = ((2 ^ k) - 1) * retryDelayMs

C1_Witness ==
  /\ maxRetries = 2 /\ retryDelayMs = DefaultRetryDelayMs
  /\ Len(outcomes) = 3
  /\ OutcomeOf(0) = Responded(429, "") /\ OutcomeOf(1) = Responded(503, "<binary>")
  /\ OutcomeOf(2) = Responded(200, "<binary>") /\ responseType = "arraybuffer"
  /\ pc = "returned" /\ networkCalls = 3 /\ SumSeq(sleeps) = 3 * DefaultRetryDelayMs

\* C2: when every attempt through maxRetries was answered 429 or >= 500 (500
\* in particular), request has made exactly maxRetries+1 network calls and has
\* failed with an error carrying the status of the last response.
C2_RetryExhaustion ==
  ( /\ Len(outcomes) = maxRetries + 1
    /\ \A i \in 0..maxRetries : RetryableResponse(OutcomeOf(i)) )
  => /\ pc = "thrown"
     /\ networkCalls = maxRetries + 1
     /\ result.kind = "throw"
     /\ ThrownError.status = Some(LastOutcome.status)

C2_Witness ==
  /\ maxRetries = 2 /\ Len(outcomes) = 3
  /\ \A i \in 0..2 : OutcomeOf(i).kind = "response" /\ OutcomeOf(i).status = 500
  /\ pc = "thrown" /\ networkCalls = 3 /\ ThrownError.status = Some(500)

\* C3: a response that is not 2xx, not 429 and below 500 ends the call on the
\* attempt it occurs: request has failed with an error carrying that status,
\* without a sleep after that attempt and without a further network call (one
\* network call in all when it was the first attempt).
C3_TerminalStatus ==
  (outcomes # <<>> /\ TerminalResponse(LastOutcome))
  => /\ pc = "thrown"
     /\ result.kind = "throw"
     /\ ThrownError.status = Some(LastOutcome.status)
     /\ networkCalls = Len(outcomes)
     /\ Len(sleeps) = Len(outcomes) - 1

C3_Witness ==
  /\ maxRetries = 2 /\ Len(outcomes) = 1 /\ OutcomeOf(0).kind = "response"
  /\ OutcomeOf(0).status = 400
  /\ pc = "thrown" /\ networkCalls = 1 /\ sleeps = <<>> /\ ThrownError.status = Some(400)

\* C4: for every k in 0..maxRetries, when fetch rejected on attempts 0..k-1
\* and attempt k was answered a decodable 2xx, request has made exactly k+1
\* network calls, has slept 2^i * retryDelayMs after failed attempt i, and has
\* returned the decoded payload.
C4_TransportRetryThenSuccess ==
  \A k \in 0..maxRetries :
    ( /\ Len(outcomes) = k + 1
      /\ \A i \in 0..(k - 1) : OutcomeOf(i).kind = "reject"
      /\ DecodableSuccess(OutcomeOf(k)) )
    => /\ pc = "returned"
       /\ networkCalls = k + 1
       /\ Len(sleeps) = k
       /\ \A i \in 0..(k - 1) : sleeps[i + 1] = (2 ^ i) * retryDelayMs
       /\ result = Return(PayloadOf(OutcomeOf(k)))

C4_Witness ==
  /\ maxRetries = 2 /\ retryDelayMs = DefaultRetryDelayMs
  /\ Len(outcomes) = 3
  /\ OutcomeOf(0).kind = "reject" /\ OutcomeOf(1).kind = "reject"
  /\ OutcomeOf(2) = Responded(200, "{\"voices\":[]}") /\ responseType = "json"
  /\ pc = "returned" /\ sleeps = <<DefaultRetryDelayMs, 2 * DefaultRetryDelayMs>>

\* C5: when the attempt with index maxRetries ends in a transport failure,
\* request has failed with an error without status whose message is 'Network
\* error after <maxRetries+1> attempts: <message of that transport error>',
\* whatever happened on the earlier attempts.
C5_TransportExhaustion ==
  (Len(outcomes) = maxRetries + 1 /\ TransportFailure(LastOutcome))
  => /\ pc = "thrown"
     /\ result.kind = "throw"
     /\ ThrownError.status = Undefined
     /\ ThrownError.message =
          "Network error after " \o ToString(maxRetries + 1) \o " attempts: " \o LastOutcome.message

C5_Witness ==
  /\ maxRetries = 2 /\ Len(outcomes) = 3
  /\ RetryableResponse(OutcomeOf(0)) /\ DecodeFailure(OutcomeOf(1))
  /\ OutcomeOf(2).kind = "reject"
  /\ pc = "thrown"
  /\ ThrownError.message = "Network error after 3 attempts: fetch failed"

\* C6: when the first attempt is answered a decodable 2xx, request has
\* returned the decoded payload after exactly one network call and no sleep.
C6_FirstAttemptSuccess ==
  (Len(outcomes) = 1 /\ DecodableSuccess(OutcomeOf(0)))
  => /\ pc = "returned"
     /\ result = Return(PayloadOf(OutcomeOf(0)))
     /\ networkCalls = 1
     /\ sleeps = <<>>

C6_Witness ==
  /\ maxRetries = 2 /\ outcomes = <<Responded(201, "{\"voices\":[]}")>>
  /\ responseType = "json" /\ pc = "returned"
  /\ result.value = Some([type |-> "object", voices |-> Some(<<>>), detail |-> Undefined,
                         labels |-> Undefined])

\* C7: a 2xx response whose body does not decode is never retried: request
\* has failed on that attempt, with no sleep after it and no further network
\* call, and the error is a decode error, not a network error.
C7_DecodeFailureNotRetried ==
  (outcomes # <<>> /\ DecodeFailure(LastOutcome))
  => /\ pc = "thrown"
     /\ networkCalls = Len(outcomes)
     /\ Len(sleeps) = Len(outcomes) - 1
     /\ result.kind = "throw"
     /\ ThrownError.name = "SyntaxError"

\* C8: request terminates with exactly one outcome, a decoded result or an
\* error, after at most maxRetries+1 network calls, whatever the attempts'
\* outcomes, provided every network call and every sleep completes.
C8_Terminates ==
  /\ [](networkCalls <= maxRetries + 1)
  /\ [](Done <=> result.kind \in {"return", "throw"})
  /\ [](result.kind = "return" => result.value # Undefined /\ result.error = Undefined)
  /\ [](result.kind = "throw" => result.error # Undefined /\ result.value = Undefined)
  /\ (pc \in {"fetch", "sleep"}) ~> Done

C8_Witness ==
  /\ maxRetries = 2 /\ networkCalls = 3 /\ pc = "thrown"
  /\ OutcomeOf(0).kind = "reject" /\ DecodeFailure(OutcomeOf(1))
  /\ RetryableResponse(OutcomeOf(2))

\* C9: the i-th sleep of a call (i counted from 0) is started right after
\* failed attempt i and lasts exactly 2^i * retryDelayMs, whether that attempt
\* failed by transport error or by a 429/5xx response: retryDelayMs,
\* 2*retryDelayMs, 4*retryDelayMs, ..., without jitter or cap.
C9_BackoffFormula ==
  /\ \A i \in 0..(Len(sleeps) - 1) :
       /\ sleeps[i + 1] = (2 ^ i) * retryDelayMs
       /\ i < Len(outcomes)
       /\ (TransportFailure(OutcomeOf(i)) \/ RetryableResponse(OutcomeOf(i)) \/ DecodeFailure(OutcomeOf(i)))
  /\ pc = "sleep" => Len(sleeps) = attempt + 1 /\ Len(outcomes) = attempt + 1

C9_Witness ==
  /\ retryDelayMs = DefaultRetryDelayMs /\ pc = "sleep" /\ attempt = 1
  /\ OutcomeOf(0).kind = "reject" /\ RetryableResponse(OutcomeOf(1))
  /\ sleeps = <<DefaultRetryDelayMs, 2 * DefaultRetryDelayMs>>

\* C10: an error of request carries a status exactly when the call ended on a
\* received response with a non-success status, and an error without status
\* always means that the call ended on a transport-level fault.
C10_StatusIffHttpFailure ==
  (pc = "thrown" /\ outcomes # <<>>)
  => /\ (ThrownError.status # Undefined)
          <=> (LastOutcome.kind = "response" /\ ~(LastOutcome.status \in 200..299))
     /\ (ThrownError.status = Undefined) => TransportFailure(LastOutcome)

(***************************************************************************)
(* Properties of the singleton.                                            *)
(***************************************************************************)
\* the number an environment variable stands for, or the default when it is
\* unset or empty
EnvNumber(o, default) == IF o = Undefined \/ o[1] = <<>> THEN default ELSE ParseInt(o[1])

\* the fields a client built from environment e has
FieldsFor(e) ==
  [apiKey |-> e.ELEVENLABS_API_KEY[1],
   maxRetries |-> EnvNumber(e.MAX_RETRIES, 3),
   retryDelayMs |-> EnvNumber(e.RETRY_DELAY_MS, 1000)]

\* C11: as long as resetClient is not called, whatever getClient calls and
\* changes of the environment are interleaved (calls of request in flight
\* included), the client is constructed exactly once, every getClient call
\* returns that one instance, and its apiKey, maxRetries and retryDelayMs stay
\* the values read from the environment at its construction.
C11_SingletonOnce ==
  /\ [](sinceReset <= 1)
  /\ [](clientInstance # Undefined =>
          /\ sinceReset = 1
          /\ clientInstance[1].fields = FieldsFor(envAtConstruction))
  /\ [][ /\ (clientInstance # Undefined /\ clientInstance' # Undefined)
              => clientInstance' = clientInstance
         /\ constructed' # constructed => clientInstance = Undefined
         /\ (getClient /\ clientInstance # Undefined)
              => lastGet' = GetReturned(clientInstance[1])
         /\ (getClient /\ lastGet'.kind = "return")
              => lastGet'.instance = clientInstance' ]_vars

C11_Witness ==
  /\ constructed = 1 /\ sinceReset = 1
  /\ clientInstance # Undefined
  /\ lastGet = GetReturned(clientInstance[1])
  /\ envAtConstruction.ELEVENLABS_API_KEY = Some("sk-A")
  /\ envAtConstruction.MAX_RETRIES = Undefined
  /\ env.ELEVENLABS_API_KEY = Some("sk-B") /\ env.MAX_RETRIES = Some(<<"1">>)
  /\ clientInstance[1].fields = [apiKey |-> "sk-A", maxRetries |-> 3, retryDelayMs |-> 1000]
  /\ pc = "sleep" /\ self = Some(1)

\* C12: after resetClient no instance is stored, and the next getClient call
\* (made with the credential set) constructs a new instance, distinct from
\* every instance returned before, whose apiKey, maxRetries and retryDelayMs
\* are those of the environment at that call.
C12_ResetThenFresh ==
  /\ [](sinceReset = 0 => clientInstance = Undefined)
  /\ [][ (getClient /\ sinceReset = 0 /\ TruthyString(env.ELEVENLABS_API_KEY))
           => /\ clientInstance' # Undefined
              /\ lastGet' = GetReturned(clientInstance'[1])
              /\ clientInstance'[1].id > constructed
              /\ (lastGet.instance # Undefined => clientInstance'[1].id # lastGet.instance[1].id)
              /\ clientInstance'[1].fields = FieldsFor(env) ]_vars

C12_Witness ==
  /\ constructed = 2 /\ sinceReset = 1
  /\ clientInstance # Undefined /\ clientInstance[1].id = 2
  /\ clientInstance[1].fields = [apiKey |-> "sk-B", maxRetries |-> 1, retryDelayMs |-> 250]
  /\ lastGet = GetReturned(clientInstance[1])
  /\ self = Some(1) /\ apiKey = "sk-A" /\ maxRetries = 3

\* C13: a getClient call that finds no instance and the credential absent or
\* empty fails with an error there and then: it stores no instance and hands
\* none to the caller, so no request can be issued with it; a later getClient
\* call made once the credential is set constructs an instance that carries it.
C13_MissingCredential ==
  /\ [](clientInstance # Undefined => clientInstance[1].fields.apiKey # "")
  /\ [](lastGet.kind = "throw" =>
          /\ lastGet.instance = Undefined
          /\ lastGet.error[1].message = "ELEVENLABS_API_KEY environment variable is required")
  /\ [](self = Undefined => networkCalls = 0)
  /\ [][ /\ (getClient /\ clientInstance = Undefined /\ ~TruthyString(env.ELEVENLABS_API_KEY))
              => /\ lastGet'.kind = "throw"
                 /\ clientInstance' = Undefined
                 /\ constructed' = constructed
                 /\ networkCalls' = networkCalls
         /\ (getClient /\ clientInstance = Undefined /\ TruthyString(env.ELEVENLABS_API_KEY))
              => /\ lastGet'.kind = "return"
                 /\ clientInstance' # Undefined
                 /\ clientInstance'[1].fields.apiKey = env.ELEVENLABS_API_KEY[1] ]_vars

C13_Witness ==
  /\ lastGet.kind = "throw" /\ clientInstance = Undefined /\ constructed = 0
  /\ env.ELEVENLABS_API_KEY = Some("") /\ networkCalls = 0 /\ self = Undefined

(***************************************************************************)
(* Properties of the request as it is sent.                                *)
(***************************************************************************)
\* a network call is in flight: fetch has been called with url, method,
\* requestHeaders and sentBody
InFlight == pc = "fetch"

\* header names are case-insensitive: the lower-case form of the names in use
LowerName(n) ==
  CASE n = "Content-Type" -> "content-type"
    [] n = "Accept" -> "accept"
    [] OTHER -> n

\* the values a headers object carries for the header with lower-case name ln
ValuesFor(obj, ln) == {obj[n] : n \in {k \in DOMAIN obj : LowerName(k) = ln}}

CallerHeadersGiven == OrDefault(options.headers, NoHeaders)

\* C14: on every network call the header xi-api-key carries the credential of
\* the client, whatever header overrides the caller supplied.
C14_AuthHeaderFromConfig ==
  InFlight => requestHeaders["xi-api-key"] = apiKey

\* C15: when the caller supplies a Content-Type override, the Content-Type
\* sent on every attempt is the caller's value and nothing else.
C15_ContentTypeOverrideKept ==
  (InFlight /\ ValuesFor(CallerHeadersGiven, "content-type") # {})
  => ValuesFor(requestHeaders, "content-type") = ValuesFor(CallerHeadersGiven, "content-type")

\* C16: whenever the call carries a body and the caller supplied no
\* Content-Type override, every network call is sent with Content-Type
\* application/json and with the serialized body.
C16_JsonContentTypeWithBody ==
  (InFlight /\ options.body # Undefined /\ ValuesFor(CallerHeadersGiven, "content-type") = {})
  => /\ ValuesFor(requestHeaders, "content-type") = {"application/json"}
     /\ sentBody = Some(JSONStringify(options.body[1]))

\* C17: with responseType arraybuffer a 2xx response is returned as exactly
\* the bytes of its body, whether or not they parse as JSON; generateAudio
\* always asks for arraybuffer, get and post ask for structured decoding
\* unless the caller passes a responseType.
C17_RawBytes ==
  /\ (outcomes # <<>> /\ responseType = "arraybuffer"
        /\ LastOutcome.kind = "response" /\ LastOutcome.status \in 200..299)
     => /\ pc = "returned"
        /\ result.value[1].type = "ArrayBuffer"
        /\ result.value[1].bytes = LastOutcome.body
  /\ (pc = "returned" /\ result.value[1].type = "ArrayBuffer") => responseType = "arraybuffer"
  /\ entry = "generateAudio" => responseType = "arraybuffer" /\ method = "POST"
  /\ entry \in {"get", "post"} =>
       responseType = (IF options.responseType = Undefined THEN "json" ELSE options.responseType[1])

C17_Witness ==
  /\ entry = "generateAudio" /\ pc = "returned" /\ Len(outcomes) = 2
  /\ OutcomeOf(0).status = 429 /\ OutcomeOf(1) = Responded(200, "<binary>")
  /\ result = Return([type |-> "ArrayBuffer", bytes |-> "<binary>"])

(***************************************************************************)
(* Properties of concurrent calls.                                         *)
(***************************************************************************)
\* what a caller can observe of call c
Observable(c) ==
  [pc |-> RegsOf(c).pc, networkCalls |-> RegsOf(c).networkCalls,
   sleeps |-> RegsOf(c).sleeps, result |-> RegsOf(c).result]

SomeCallSleeps == \E c \in Calls \ {running} : RegsOf(c).pc = "sleep"

\* C18: with several calls in flight on one client, the network calls, the
\* sleeps and the outcome of a call are determined by the responses to its
\* own attempts (two calls with the same options and the same responses so
\* far, at the same await, have made the same network calls and sleeps and
\* have the same result, whatever the other calls did in between); a
\* call suspended in a retry sleep keeps no other call from being started,
\* resumed, answered or settled; and no step of one call changes the locals
\* of another call or the fields of the client.
C18_IndependentCalls ==
  /\ [](\A c1, c2 \in Calls :
          (RegsOf(c1).options = RegsOf(c2).options /\ RegsOf(c1).outcomes = RegsOf(c2).outcomes
             /\ RegsOf(c1).pc = RegsOf(c2).pc)
          => Observable(c1) = Observable(c2))
  /\ [](SomeCallSleeps =>
          /\ \A c \in Calls \ {running} : ENABLED Yield(c)
          /\ (pc \in {"idle", "returned", "thrown"} => ENABLED Request("json"))
          /\ (pc = "fetch" => ENABLED FetchResponds(200, "{\"voices\":[]}"))
          /\ (pc = "sleep" => ENABLED SleepResolves))
  /\ [][ /\ UNCHANGED <<apiKey, maxRetries, retryDelayMs>>
         /\ running' = running => parked' = parked ]_vars

C18_Witness ==
  /\ running = 2 /\ RegsOf(1).pc = "sleep" /\ RegsOf(1).outcomes = <<Responded(429, "{\"voices\":[]}")>>
  /\ pc = "returned" /\ Len(outcomes) = 2 /\ OutcomeOf(0) = Rejected("fetch failed")
  /\ networkCalls = 2 /\ sleeps = <<DefaultRetryDelayMs>>

(***************************************************************************)
(* Properties of the tool handlers and of startup.                         *)
(***************************************************************************)
Origins == {"validation", "getClient", "client", "response", "fs"}

\* C19: whatever is raised while a tool handler handles a call (a validation
\* failure, the missing credential at getClient, an error of the client, a
\* response the tool cannot process, an error of the file system), the
\* handler returns a result marked isError whose text is the handler's prefix
\* followed by the message of that error; no error leaves the handler, and a
\* result that is not marked isError is returned only if nothing was raised.
C19_HandlerCatchesAll ==
  /\ handler.stage # "escaped"
  /\ handler.raised # Undefined
       => /\ handler.stage = "done"
          /\ handler.isError
          /\ handler.origin \in Origins
          /\ handler.text = ErrorPrefix(handler.tool) \o handler.raised[1].message
  /\ (handler.stage = "done" /\ ~handler.isError)
       => /\ handler.raised = Undefined
          /\ pc = "returned"
          /\ lastGet.kind = "return"
  /\ (handler.stage = "done" /\ handler.origin = "client")
       => pc = "thrown" /\ handler.raised = result.error
  /\ (handler.stage = "done" /\ handler.origin = "getClient")
       => lastGet.kind = "throw" /\ handler.raised = lastGet.error

C19_Witness ==
  /\ handler.stage = "done"
  /\ handler.tool = "elevenlabs_tts"
  /\ handler.origin = "client"
  /\ networkCalls = 2
  /\ handler.text = "Error generating TTS: Network error after 2 attempts: fetch failed"

\* C20: a process started with ELEVENLABS_API_KEY absent or empty leaves
\* main with process.exit(1) and is never connected to its transport; no
\* handler runs in it.
C20_NoCredentialNoServer ==
  /\ [](~TruthyString(env.ELEVENLABS_API_KEY)
          => /\ process \in {"loaded", "exited"}
             /\ handler = IdleHandler
             /\ pc = "idle"
             /\ clientInstance = Undefined)
  /\ []((~TruthyString(env.ELEVENLABS_API_KEY) /\ process = "exited") => exitCode = Some(1))
  /\ [][(~TruthyString(env.ELEVENLABS_API_KEY) /\ process = "loaded" /\ process' # process)
          => (process' = "exited" /\ exitCode' = Some(1))]_vars
  /\ [](handler.stage # "idle" => process = "connected")

C20_Witness ==
  /\ env.ELEVENLABS_API_KEY = Some("")
  /\ process = "exited"
  /\ exitCode = Some(1)


(***************************************************************************)
(* Further properties of the request as it is sent.                        *)
(***************************************************************************)
\* C21: no network call with method GET carries a body, whichever of get,
\* post, generateAudio and request made it.
C21_NoBodyOnGet ==
  (InFlight /\ method = "GET") => sentBody = Undefined


(***************************************************************************)
(* Properties of the configuration read from the environment.              *)
(***************************************************************************)
\* the integers the strings of the model that are integers stand for
IntegerStrings == {<<"0">>, <<"2">>, <<"-", "1">>, <<"2", "5", "0">>}

IntegerOf(str) ==
  CASE str = <<"0">> -> 0
    [] str = <<"2">> -> 2
    [] str = <<"-", "1">> -> 0 - 1
    [] OTHER -> 250

\* the client the caller holds was built by getClient from the environment
HeldFromEnv == self # Undefined /\ lastGet.kind = "return" /\ self = Some(lastGet.instance[1].id)

\* C22: with maxRetries = 0, be it read from MAX_RETRIES='0', a call of
\* request that has settled has made exactly one network call and has not
\* slept, and its result is that of the one attempt: the payload of a 2xx
\* response, the error with the status of a non-2xx response, or the network
\* error with the message of the transport failure.
C22_SingleAttempt ==
  /\ (HeldFromEnv /\ envAtConstruction.MAX_RETRIES = Some(<<"0">>)) => maxRetries = 0
  /\ (maxRetries = 0 /\ Done)
       => /\ networkCalls = 1
          /\ Len(outcomes) = 1
          /\ sleeps = <<>>
          /\ DecodableSuccess(OutcomeOf(0))
               => pc = "returned" /\ result.value = Some(PayloadOf(OutcomeOf(0)))
          /\ (OutcomeOf(0).kind = "response" /\ OutcomeOf(0).status \notin 200..299)
               => pc = "thrown" /\ ThrownError.status = Some(OutcomeOf(0).status)
          /\ OutcomeOf(0).kind = "reject"
               => /\ pc = "thrown"
                  /\ ThrownError.status = Undefined
                  /\ ThrownError.message = "Network error after 1 attempts: " \o OutcomeOf(0).message

C22_Witness ==
  /\ HeldFromEnv /\ envAtConstruction.MAX_RETRIES = Some(<<"0">>)
  /\ maxRetries = 0 /\ pc = "thrown" /\ networkCalls = 1
  /\ outcomes = <<Responded(429, "{\"voices\":[]}")>>

\* C23: the instance getClient builds has maxRetries 3 when MAX_RETRIES is
\* not set and retryDelayMs 1000 when RETRY_DELAY_MS is not set; when they
\* are set to integers it has exactly those integers.
C23_EnvDefaultsAndIntegers ==
  lastGet.kind = "return"
  => LET f == lastGet.instance[1].fields
         e == envAtConstruction
     IN  /\ e.MAX_RETRIES = Undefined => f.maxRetries = 3
         /\ e.RETRY_DELAY_MS = Undefined => f.retryDelayMs = 1000
         /\ (e.MAX_RETRIES # Undefined /\ e.MAX_RETRIES[1] \in IntegerStrings)
              => f.maxRetries = IntegerOf(e.MAX_RETRIES[1])
         /\ (e.RETRY_DELAY_MS # Undefined /\ e.RETRY_DELAY_MS[1] \in IntegerStrings)
              => f.retryDelayMs = IntegerOf(e.RETRY_DELAY_MS[1])

C23_Witness ==
  /\ lastGet.kind = "return"
  /\ envAtConstruction.MAX_RETRIES = Some(<<"2">>)
  /\ envAtConstruction.RETRY_DELAY_MS = Some(<<"2", "5", "0">>)
  /\ lastGet.instance[1].fields.maxRetries = 2
  /\ lastGet.instance[1].fields.retryDelayMs = 250

\* C27: whatever string MAX_RETRIES holds, a call of request that fails has
\* made at least one network call, and the error it throws is never the one
\* after the loop, 'Request failed after all retries'.
C27_AtLeastOneNetworkCall ==
  (HeldFromEnv /\ pc = "thrown")
  => /\ networkCalls >= 1
     /\ ThrownError.message # "Request failed after all retries"


(***************************************************************************)
(* Properties of the diagnostic lines.                                     *)
(***************************************************************************)
\* the message of the error an attempt without a usable response ended with
FailureText(o) ==
  CASE o.kind = "reject" -> o.message
    [] o.kind = "bodyfail" -> BodyStreamMessage
    [] OTHER -> JSONSyntaxMessage(o.body)

\* the line that names the failure of attempt i and the delay d
LineFor(i, d) ==
  IF OutcomeOf(i).kind = "response" /\ OutcomeOf(i).status \notin 200..299
    THEN "Request failed with " \o ToString(OutcomeOf(i).status) \o ", retrying in "
           \o ToString(d) \o "ms..."
    ELSE "Network error, retrying in " \o ToString(d) \o "ms... " \o FailureText(OutcomeOf(i))

\* C24: within one call of request there are as many diagnostic lines as
\* sleeps; the line written for the sleep after attempt i names the status
\* of that attempt, or the message of its error, and the delay of that
\* sleep; a line is written only in the step that enters a sleep, and the
\* call goes on to its next attempt afterwards.
C24_LogBeforeEachSleep ==
  /\ [](/\ Len(logs) = Len(sleeps)
        /\ \A i \in 1..Len(sleeps) : logs[i] = LineFor(i - 1, sleeps[i]))
  /\ [][logs' # logs
          => \/ logs' = <<>>
             \/ /\ Len(logs') = Len(logs) + 1
                /\ Len(sleeps') = Len(sleeps) + 1
                /\ pc' = "sleep"
                /\ attempt' < maxRetries']_vars

C24_Witness ==
  /\ pc = "sleep"
  /\ retryDelayMs = 1000
  /\ logs = <<"Request failed with 429, retrying in 1000ms...",
              "Network error, retrying in 2000ms... fetch failed">>


(***************************************************************************)
(* Properties of the message of a status error.                            *)
(***************************************************************************)
\* the bodies of the model that parse as JSON, and the nested detail.message
\* of those that have one
ParsesAsJSON(b) == b \in {"{\"detail\":{\"message\":\"quota exceeded\"}}", "{\"voices\":[]}", "null", "5"}

NestedMessage(b) ==
  IF b = "{\"detail\":{\"message\":\"quota exceeded\"}}" THEN "quota exceeded" ELSE ""

\* the error request made of the last response: the one it holds while it
\* sleeps, or the one it threw
StatusErrorMade == IF pc = "sleep" THEN pendingError[1] ELSE ThrownError

\* C25: the message of the error made of a non-2xx response with status s
\* and body b is base(s), followed by ': ' and the detail when there is one;
\* base(s) is the entry of s in ERROR_MESSAGES or 'HTTP Error <s>', and the
\* detail is detail.message of b when b parses and b itself when it does not.
C25_ErrorMessage ==
  (outcomes # <<>> /\ LastOutcome.kind = "response" /\ LastOutcome.status \notin 200..299
     /\ pc \in {"sleep", "thrown"})
  => LET s == LastOutcome.status
         b == LastOutcome.body
         base == IF s \in {400, 401, 403, 429, 500, 502, 503}
                   THEN ERROR_MESSAGES[s] ELSE "HTTP Error " \o ToString(s)
         detail == IF ParsesAsJSON(b) THEN NestedMessage(b) ELSE b
     IN  /\ StatusErrorMade.status = Some(s)
         /\ StatusErrorMade.message = IF detail # "" THEN base \o ": " \o detail ELSE base


(***************************************************************************)
(* Properties of the files the audio tools write.                          *)
(***************************************************************************)
AudioTools == Tools \ VoiceTools

\* C26: in every audio tool the directory is made and the file is written
\* only after the client call has returned a byte buffer: while the client
\* call runs, and when it has failed after any number of retries, nothing
\* has been done to the file system; when the tool succeeds, exactly one
\* file has been written and it holds the bytes of the response.
C26_WriteOnlyAfterSuccess ==
  /\ disk # EmptyDisk
       => /\ handler.tool \in AudioTools
          /\ pc = "returned"
          /\ LastOutcome.kind = "response" /\ LastOutcome.status \in 200..299
          /\ result.value = Some(ArrayBufferOf(LastOutcome.body))
  /\ (handler.stage = "client" \/ handler.origin \in {"validation", "getClient", "client"})
       => disk = EmptyDisk
  /\ (handler.tool \in AudioTools /\ handler.stage = "done" /\ ~handler.isError)
       => /\ disk.mkdirs = 1
          /\ disk.files = <<LastOutcome.body>>

C26_Witness ==
  /\ handler.tool = "elevenlabs_sound_effect" /\ handler.stage = "done" /\ ~handler.isError
  /\ Len(outcomes) = 2 /\ OutcomeOf(0).kind = "response" /\ OutcomeOf(0).status = 429
  /\ disk.files = <<"<binary>">>


(***************************************************************************)
(* Further properties of the attempt loop.                                 *)
(***************************************************************************)
\* C28: within one call of request a sleep lies between two network calls:
\* whenever a network call is in flight or the call has settled, the sleeps
\* number one less than the network calls; a sleep in progress belongs to an
\* attempt that has retries left; and no sleep follows the attempt whose
\* outcome went to the caller.
C28_SleepsBetweenCalls ==
  /\ (pc = "fetch" \/ Done) => Len(sleeps) = networkCalls - 1
  /\ pc = "sleep" => (Len(sleeps) = networkCalls /\ attempt < maxRetries)
  /\ Done => Len(sleeps) = Len(outcomes) - 1


(***************************************************************************)
(* Properties of a request that runs while the singleton changes.          *)
(***************************************************************************)
\* the fields of the instance the running call was started on
HeldFields == [apiKey |-> apiKey, maxRetries |-> maxRetries, retryDelayMs |-> retryDelayMs]

\* C29: while a call of request is in flight or sleeps, no step (resetClient,
\* a change of the environment and a getClient that builds a new instance
\* included) changes the credential, maxRetries or retryDelayMs it runs with,
\* nor the headers it sends: every network call carries the credential of
\* the instance the call was started on, every sleep is computed from that
\* instance's retryDelayMs and the attempts are bounded by its maxRetries.
C29_ResetLeavesRequestAlone ==
  /\ [][(pc = "fetch" \/ pc = "sleep")
          => (HeldFields' = HeldFields /\ self' = self /\ requestHeaders' = requestHeaders
                /\ pc' # "idle")]_vars
  /\ [](InFlight => requestHeaders["xi-api-key"] = apiKey)
  /\ []((pc = "fetch" \/ pc = "sleep")
          => /\ \A i \in 1..Len(sleeps) : sleeps[i] = (2 ^ (i - 1)) * retryDelayMs
             /\ networkCalls <= maxRetries + 1)

C29_Witness ==
  /\ pc = "fetch" /\ attempt = 1
  /\ apiKey = "sk-A" /\ maxRetries = 3 /\ sleeps = <<1000>>
  /\ clientInstance # Undefined
  /\ clientInstance[1].id # self[1]
  /\ clientInstance[1].fields = [apiKey |-> "sk-B", maxRetries |-> 1, retryDelayMs |-> 250]


(***************************************************************************)
(* Properties of what the attempts of one call send.                       *)
(***************************************************************************)
\* the endpoint argument of the call in progress
CalledPath ==
  IF entry = "post" THEN "/voices/add"
  ELSE IF entry = "generateAudio" THEN "/text-to-speech/v1"
  ELSE "/voices"

\* what a network call of the call in progress carries, as request computes
\* it from its arguments
RequestAsBuilt ==
  /\ url = ELEVENLABS_API_BASE \o CalledPath
  /\ method = OrDefault(options.method, "GET")
  /\ requestHeaders = BuildHeaders(CallerHeadersGiven, options.body)
  /\ sentBody = BuildBody(options.body)

====
